---- MODULE Spec2Model ----
(***************************************************************************)
(* LemLib v0.4 path file codec of path.jerryio                             *)
(* (src/src/format/LemLibFormatV0_4.tsx): recoverPathFileData (decode) and *)
(* exportPathFile (encode), in the two revisions the file holds.           *)
(*                                                                         *)
(* A string is a sequence of one-character strings.  A JavaScript number   *)
(* is a record: [k |-> "fin", v |-> n] is the finite number n / Scale      *)
(* (four decimal places are kept, one more than toFixed(3) rounds to),     *)
(* NaN, PosInf and NegInf are the other doubles the code can meet.         *)
(***************************************************************************)
EXTENDS Integers, Sequences, FiniteSets, TLC

\* ------------------------------------------------------------------------
\* Bounds of the model
\* ------------------------------------------------------------------------
\* spline lines of an opened file, between the header and the final line
MaxBody == 2
\* splines of the path the editor exports
MaxSplines == 2
\* points the sampler returns
MaxPoints == 2

\* ------------------------------------------------------------------------
\* Numbers
\* ------------------------------------------------------------------------
\* fixed-point resolution of a finite number: 10^-4
Scale == 10000

Fin(n) == [k |-> "fin", v |-> n]
NaN == [k |-> "nan", v |-> 0]
PosInf == [k |-> "inf", v |-> 1]
NegInf == [k |-> "inf", v |-> -1]

\* isNaN written as a test for a finite number
NotFinite(x) == x.k # "fin"

IsNaN(x) == x.k = "nan"

Abs(n) == IF n < 0 THEN -n ELSE n

\* Math.min / Math.max on numbers that are not NaN
NumLE(a, b) ==
  IF a.k = "inf" THEN (a.v < 0 \/ b = PosInf)
  ELSE IF b.k = "inf" THEN b.v > 0
  ELSE a.v <= b.v

MathMin(a, b) == IF NumLE(a, b) THEN a ELSE b

MathMax(a, b) == IF NumLE(a, b) THEN b ELSE a

\* ------------------------------------------------------------------------
\* Strings
\* ------------------------------------------------------------------------
Digits == <<"0", "1", "2", "3", "4", "5", "6", "7", "8", "9">>

IsDigit(c) == \E d \in 1..10 : Digits[d] = c

DigitVal(c) == (CHOOSE d \in 1..10 : Digits[d] = c) - 1

AllDigits(s) == \A p \in 1..Len(s) : IsDigit(s[p])

RECURSIVE NatVal(_)
\* the value of a string of digits
NatVal(s) ==
  IF s = <<>> THEN 0
  ELSE 10 * NatVal(SubSeq(s, 1, Len(s) - 1)) + DigitVal(s[Len(s)])

RECURSIVE NatToStr(_)
\* the decimal digits of a natural number
NatToStr(n) ==
  IF n < 10 THEN <<Digits[n + 1]>>
  ELSE NatToStr(n \div 10) \o <<Digits[(n % 10) + 1]>>

InfinityStr == <<"I", "n", "f", "i", "n", "i", "t", "y">>

\* s has sep at position p
HasAt(s, sep, p) ==
  /\ p + Len(sep) - 1 <= Len(s)
  /\ \A q \in 1..Len(sep) : s[p + q - 1] = sep[q]

\* String.prototype.split with a separator no two occurrences of which can
\* overlap ("\n" and ", "): the pieces between the occurrences, in order, one
\* more than there are occurrences (the empty string splits into <<"">>)
Split(s, sep) ==
  LET hits == {p \in 1..Len(s) : HasAt(s, sep, p)}
      cut(n) == CHOOSE p \in hits : Cardinality({q \in hits : q < p}) = n - 1
      count == Cardinality(hits)
  IN  [n \in 1..(count + 1) |->
         SubSeq(s,
                IF n = 1 THEN 1 ELSE cut(n - 1) + Len(sep),
                IF n = count + 1 THEN Len(s) ELSE cut(n) - 1)]

RECURSIVE Trim(_)
\* strip the white space at both ends (what Number() ignores)
Trim(s) ==
  IF s = <<>> THEN s
  ELSE IF s[1] = " " THEN Trim(Tail(s))
  ELSE IF s[Len(s)] = " " THEN Trim(SubSeq(s, 1, Len(s) - 1))
  ELSE s

\* the fraction digits of a decimal literal in units of 1 / Scale (digits
\* after the fourth do not move a rounding to three places across a
\* multiple of 0.001, ties apart)
FracVal(f) ==
  LET g == IF Len(f) > 4 THEN SubSeq(f, 1, 4) ELSE f
      pad == <<1000, 100, 10, 1>>
  IN  IF g = <<>> THEN 0 ELSE NatVal(g) * pad[Len(g)]

\* an unsigned decimal literal ("12", "12.5", ".5", "5.") or "Infinity";
\* NaN for anything else, the empty string included
UnsignedLiteral(s) ==
  IF s = InfinityStr THEN PosInf
  ELSE LET dots == {p \in 1..Len(s) : s[p] = "."}
       IN  IF Cardinality(dots) > 1 THEN NaN
           ELSE LET d == IF dots = {} THEN Len(s) + 1 ELSE CHOOSE p \in dots : TRUE
                    ip == SubSeq(s, 1, d - 1)
                    fp == SubSeq(s, d + 1, Len(s))
                IN  IF ~AllDigits(ip) \/ ~AllDigits(fp) \/ (ip = <<>> /\ fp = <<>>)
                    THEN NaN
                    ELSE Fin(NatVal(ip) * Scale + FracVal(fp))

Negate(x) == IF x.k = "nan" THEN x ELSE [x EXCEPT !.v = -x.v]

\* a decimal literal with an optional sign
SignedLiteral(s) ==
  IF s = <<>> THEN NaN
  ELSE IF s[1] = "-" THEN Negate(UnsignedLiteral(Tail(s)))
  ELSE IF s[1] = "+" THEN UnsignedLiteral(Tail(s))
  ELSE UnsignedLiteral(s)

\* lines[i] past the end of the array
Undefined == <<"undefined">>

\* Number(x): undefined is NaN, the empty (or blank) string is 0
ToNumber(x) ==
  IF x = Undefined THEN NaN
  ELSE IF Trim(x) = <<>> THEN Fin(0)
  ELSE SignedLiteral(Trim(x))

\* parseFloat(s): the longest prefix that is a literal, NaN when there is none
ParseFloat(s) ==
  LET t == Trim(s)
      ok == {n \in 1..Len(t) : ~IsNaN(SignedLiteral(SubSeq(t, 1, n)))}
  IN  IF ok = {} THEN NaN
      ELSE SignedLiteral(SubSeq(t, 1, CHOOSE n \in ok : \A m \in ok : m <= n))

Pad3(n) ==
  IF n < 10 THEN <<"0", "0">> \o NatToStr(n)
  ELSE IF n < 100 THEN <<"0">> \o NatToStr(n)
  ELSE NatToStr(n)

\* (n / d).toFixed(3) of a finite number of n / d units of 1 / Scale, d > 0:
\* three decimal places, the nearest one (a tie goes away from zero here; on
\* a double it goes by the binary expansion)
RatToFixed3(n, d) ==
  LET m == (2 * Abs(n) + 10 * d) \div (20 * d)
  IN  (IF n < 0 THEN <<"-">> ELSE <<>>)
        \o NatToStr(m \div 1000) \o <<".">> \o Pad3(m % 1000)

\* x.toFixed(3)
ToFixed3(x) ==
  IF x.k = "nan" THEN <<"N", "a", "N">>
  ELSE IF x.k = "inf" THEN (IF x.v < 0 THEN <<"-">> ELSE <<>>) \o InfinityStr
  ELSE RatToFixed3(x.v, 1)

RECURSIVE StripZeros(_)
StripZeros(f) ==
  IF f # <<>> /\ f[Len(f)] = "0" THEN StripZeros(SubSeq(f, 1, Len(f) - 1)) ELSE f

Pad4(n) == IF n < 1000 THEN <<"0">> \o Pad3(n) ELSE NatToStr(n)

\* `${x}` of a number: the shortest decimal that reads back as x
NumToStr(x) ==
  IF x.k = "nan" THEN <<"N", "a", "N">>
  ELSE IF x.k = "inf" THEN (IF x.v < 0 THEN <<"-">> ELSE <<>>) \o InfinityStr
  ELSE LET a == Abs(x.v)
           f == StripZeros(Pad4(a % Scale))
       IN  (IF x.v < 0 THEN <<"-">> ELSE <<>>)
             \o NatToStr(a \div Scale)
             \o (IF f = <<>> THEN <<>> ELSE <<".">> \o f)

\* ------------------------------------------------------------------------
\* State
\* ------------------------------------------------------------------------
VARIABLES
  version,      \* which of the two revisions of the file runs (1 or 2)
  pc,           \* "idle", "edited", "file", "loop", "done", "error", "exportError"
  uol,          \* gc.uol, the editor's unit of length
  appPaths,     \* the editor's paths; the exported one is the first
  speedTo,      \* speedLimit.to of the exported path (rev. 1) or of app.sc (rev. 2)
  points,       \* exportPathFile: what the sampler returned
  fileContent,  \* the text exported, or the text of the opened file
  exported,     \* fileContent is the result of exportPathFile
  lines,        \* recoverPathFileData: fileContent.split("\n")
  i,            \* recoverPathFileData: the 0-based index of the current line
  maxSpeed,     \* recoverPathFileData: Number(lines[i + 2])
  paths,        \* recoverPathFileData: the local array of paths
  sc,           \* recoverPathFileData rev. 2: sc.speedLimit.to
  err,          \* the Error thrown, <<>> when none
  thrower,      \* the statement that threw
  rtn           \* <<>>, or <<r>> once recoverPathFileData has returned r

vars == <<version, pc, uol, appPaths, speedTo, points, fileContent, exported,
          lines, i, maxSpeed, paths, sc, err, thrower, rtn>>

appVars == <<uol, appPaths, speedTo>>
decodeVars == <<lines, i, maxSpeed, paths, sc, rtn>>

\* PathConfigImpl / SpeedConfigImpl: speedLimit.minLimit, maxLimit, to
SpeedMinLimit == 0
SpeedMaxLimit == 127
SpeedDefaultTo == 100

\* ------------------------------------------------------------------------
\* recoverPathFileData
\* ------------------------------------------------------------------------
EndDataStr == <<"e", "n", "d", "D", "a", "t", "a">>
NewLine == <<"\n">>
CommaSpace == <<",", " ">>

NoEndDataError == <<"Invalid file format, unable to find line 'endData'">>
MaxSpeedError == <<"Invalid file format, unable to parse max speed">>

\* error() with the 0-based index for the line number
SplineErrorZeroBased(idx) ==
  <<"Invalid file format, unable to parse spline at line ", idx>>

\* error(): the message carries i + 1
SplineError(idx) == <<"Invalid file format, unable to parse spline at line ", idx + 1>>

\* findIndex with line.startsWith("endData") for the test
FindEndDataPrefix(ls) ==
  LET hits == {p \in 1..Len(ls) : HasAt(ls[p], <<"e", "n", "d", "D", "a", "t", "a">>, 1)}
  IN  IF hits = {} THEN -1
      ELSE (CHOOSE p \in hits : \A q \in hits : p <= q) - 1

\* lines.findIndex((line) => line === "endData"), 0-based, -1 when absent
FindEndData(ls) ==
  LET hits == {p \in 1..Len(ls) : ls[p] = EndDataStr}
  IN  IF hits = {} THEN -1
      ELSE (CHOOSE p \in hits : \A q \in hits : p <= q) - 1

\* lines[idx] of a 0-based index
LineAt(ls, idx) == IF idx >= 0 /\ idx < Len(ls) THEN ls[idx + 1] ELSE Undefined

\* util clamp(value, min, max)
Clamp(x, lo, hi) == MathMax(lo, MathMin(x, hi))

\* the clamp without its lower limit
RecoveredSpeedNoFloor(ms) == MathMin(ToNumber(ToFixed3(ms)), Fin(SpeedMaxLimit * Scale))

\* the speed limit recovered from the max speed line:
\* rev. 1 clamp(Number(maxSpeed.toFixed(3)), minLimit.value, maxLimit.value),
\* rev. 2 Math.max(Math.min(Number(maxSpeed.toFixed(3)), maxLimit.value), minLimit.value)
RecoveredSpeed(ms) ==
  MathMax(MathMin(ToNumber(ToFixed3(ms)), Fin(SpeedMaxLimit * Scale)),
          Fin(SpeedMinLimit * Scale))

RecoveredSpeedV1(ms) ==
  Clamp(ToNumber(ToFixed3(ms)), Fin(SpeedMinLimit * Scale), Fin(SpeedMaxLimit * Scale))

\* num(str) / number(str) past its isNaN test: parseFloat(num.toFixed(3))
Num(str) == ParseFloat(ToFixed3(ToNumber(str)))

\* the while condition without the - 1 that skips the last line
LoopCondAll(idx, ls) == idx < Len(ls)

\* the while condition
LoopCond(idx, ls) == idx < Len(ls) - 1

\* the token test as tokens.length < 8
TooFewTokens(tokens) == Len(tokens) < 8

\* tokens.length !== 8
BadTokenCount(tokens) == Len(tokens) # 8

\* the continuity test on x alone
DiscontinuousXOnly(a, b) == a.x # b.x

\* a.x !== b.x || a.y !== b.y
Discontinuous(a, b) == a.x # b.x \/ a.y # b.y

EndPointControl(x, y, h) == [x |-> x, y |-> y, heading |-> h]
Control(x, y) == [x |-> x, y |-> y]

\* new Spline(p1, [p2, p3], p4)
Spline(p1, mid, p4) == [controls |-> <<p1>> \o mid \o <<p4>>]

SplineFirst(s) == s.controls[1]
SplineLast(s) == s.controls[Len(s.controls)]

\* the spline of eight tokens that all passed num()
SplineOf(tokens) ==
  Spline(EndPointControl(Num(tokens[1]), Num(tokens[2]), 0),
         <<Control(Num(tokens[3]), Num(tokens[4])),
           Control(Num(tokens[5]), Num(tokens[6]))>>,
         EndPointControl(Num(tokens[7]), Num(tokens[8]), 0))

\* new Path(...) seeded with one spline; rev. 1 sets pc.speedLimit.to on it
NewPath(spline, ms) ==
  IF version = 1
  THEN [splines |-> <<spline>>, to |-> RecoveredSpeedV1(ms)]
  ELSE [splines |-> <<spline>>]

Throw(e, site) ==
  /\ pc' = "error"
  /\ err' = e
  /\ thrower' = site

RecoverStart ==
  /\ pc = "file"
  /\ LET ls == Split(fileContent, NewLine)
         e == FindEndData(ls)
         ms == ToNumber(LineAt(ls, e + 2))
     IN  /\ lines' = ls
         /\ IF e = -1
            THEN /\ Throw(NoEndDataError, "endData")
                 /\ i' = e
                 /\ UNCHANGED <<maxSpeed, sc>>
            ELSE IF IsNaN(ms)
            THEN /\ Throw(MaxSpeedError, "maxSpeed")
                 /\ i' = e
                 /\ maxSpeed' = ms
                 /\ UNCHANGED sc
            ELSE /\ pc' = "loop"
                 /\ i' = e + 4
                 /\ maxSpeed' = ms
                 /\ sc' = IF version = 2 THEN RecoveredSpeed(ms) ELSE sc
                 /\ UNCHANGED <<err, thrower>>
  /\ UNCHANGED <<version, appVars, points, fileContent, exported, paths, rtn>>

\* push(spline)
Push(spline) ==
  IF paths = <<>>
  THEN /\ paths' = <<NewPath(spline, maxSpeed)>>
       /\ i' = i + 1
       /\ UNCHANGED <<pc, err, thrower>>
  ELSE LET path == paths[Len(paths)]
           lastSpline == path.splines[Len(path.splines)]
       IN  IF Discontinuous(SplineLast(lastSpline), SplineFirst(spline))
           THEN /\ Throw(SplineError(i), "push")
                /\ UNCHANGED <<paths, i>>
           ELSE /\ paths' = [paths EXCEPT ![Len(paths)].splines = Append(@, spline)]
                /\ i' = i + 1
                /\ UNCHANGED <<pc, err, thrower>>

\* one turn of the while loop
RecoverLine ==
  /\ pc = "loop"
  /\ LoopCond(i, lines)
  /\ LET tokens == Split(lines[i + 1], CommaSpace)
     IN  IF BadTokenCount(tokens)
         THEN /\ Throw(SplineError(i), "tokens")
              /\ UNCHANGED <<paths, i>>
         ELSE IF \E t \in 1..8 : IsNaN(ToNumber(tokens[t]))
         THEN /\ Throw(SplineError(i), "num")
              /\ UNCHANGED <<paths, i>>
         ELSE Push(SplineOf(tokens))
  /\ UNCHANGED <<version, appVars, points, fileContent, exported, lines, maxSpeed, sc, rtn>>

FormatName == <<"LemLib v0.4.x (inch, byte-voltage)">>

\* the return statement
RecoverReturn ==
  /\ pc = "loop"
  /\ ~LoopCond(i, lines)
  /\ pc' = "done"
  /\ rtn' = IF version = 1
            THEN <<[paths |-> paths]>>
            ELSE <<[format |-> FormatName, sc |-> sc, paths |-> paths]>>
  /\ UNCHANGED <<version, appVars, points, fileContent, exported, lines, i, maxSpeed,
                 paths, sc, err, thrower>>

\* ------------------------------------------------------------------------
\* Geometry and units (math/Path, math/Unit)
\* ------------------------------------------------------------------------
\* a coordinate of the editor is a whole number of units of 1 / Scale; a
\* quotient that need not be one is kept exact as n / d until it is rounded
Q(n, d) == [n |-> n, d |-> d]

RECURSIVE GCD(_, _)
GCD(a, b) == IF b = 0 THEN a ELSE GCD(b, a % b)

RECURSIVE SqrtIter(_, _, _)
SqrtIter(n, lo, hi) ==
  IF lo >= hi THEN lo
  ELSE LET mid == (lo + hi + 1) \div 2
       IN  IF mid * mid <= n THEN SqrtIter(n, mid, hi) ELSE SqrtIter(n, lo, mid - 1)

\* Math.sqrt of a perfect square
Sqrt(n) == SqrtIter(n, 0, 1000)

\* UnitOfLength, in tenths of a millimetre
Inch == 254
Centimeter == 100

\* new UnitConverter(a, b)
UnitConverter(a, b) == [a |-> a, b |-> b]

\* uc.fixPrecision(x): parseFloat(x.toFixed(3))
FixPrecision(q) == ParseFloat(RatToFixed3(q.n, q.d))

\* uc.fromAtoB(x): fixPrecision(x * a / b)
FromAtoB(uc, q) ==
  LET g == GCD(uc.a, uc.b)
  IN  FixPrecision(Q(q.n * (uc.a \div g), q.d * (uc.b \div g)))

\* uc.fromBtoA(x): fixPrecision(x * b / a)
FromBtoA(uc, q) ==
  LET g == GCD(uc.a, uc.b)
  IN  FixPrecision(Q(q.n * (uc.b \div g), q.d * (uc.a \div g)))

Vector(x, y) == [x |-> x, y |-> y]

\* a.distance(b) of two points a whole number of units apart
Distance(a, b) ==
  LET dx == Abs(b.x - a.x)
      dy == Abs(b.y - a.y)
      g == GCD(dx, dy)
  IN  IF g = 0 THEN 0
      ELSE g * Sqrt((dx \div g) * (dx \div g) + (dy \div g) * (dy \div g))

\* a.interpolate(b, dist): the point at dist from a on the ray towards b
Interpolate(a, b, dist) ==
  LET len == Distance(a, b)
      g == GCD(dist, len)
      rn == dist \div g
      rd == len \div g
  IN  Vector(Q(a.x * rd + (b.x - a.x) * rn, rd), Q(a.y * rd + (b.y - a.y) * rn, rd))

\* the sum without the division by 2
CenterSum(a, b) == Vector(Q(a.x + b.x, 1), Q(a.y + b.y, 1))

\* a.add(b).divide(new Vector(2, 2))
Center(a, b) == Vector(Q(a.x + b.x, 2), Q(a.y + b.y, 2))

\* ------------------------------------------------------------------------
\* exportPathFile
\* ------------------------------------------------------------------------
NoPathError == <<"No path to export">>
NoSplineError == <<"No spline to export">>

\* the constant 20 inches of the ghost point
GhostOverrun == 20

MetaPrefix ==
  <<"#", "P", "A", "T", "H", ".", "J", "E", "R", "R", "Y", "I", "O", "-",
    "D", "A", "T", "A", " ">>

\* `${uc.fromAtoB(point.x)}, ${uc.fromAtoB(point.y)}, ${uc.fixPrecision(point.speed)}\n`
PointLine(uc, p) ==
  NumToStr(FromAtoB(uc, Q(p.x, 1))) \o CommaSpace
    \o NumToStr(FromAtoB(uc, Q(p.y, 1))) \o CommaSpace
    \o NumToStr(FixPrecision(Q(p.speed, 1))) \o NewLine

RECURSIVE PointLines(_, _)
\* the for loop over the sampled points
PointLines(uc, pts) ==
  IF pts = <<>> THEN <<>>
  ELSE PointLine(uc, Head(pts)) \o PointLines(uc, Tail(pts))

\* the ghost point without the distance between the last two points
GhostPointOverrunOnly(uc, last2, last1) ==
  Interpolate(last2, last1, FromBtoA(uc, Q(GhostOverrun * Scale, 1)).v)

\* last2.interpolate(last1, last2.distance(last1) + uc.fromBtoA(20))
GhostPoint(uc, last2, last1) ==
  Interpolate(last2, last1,
              Distance(last2, last1) + FromBtoA(uc, Q(GhostOverrun * Scale, 1)).v)

\* points.length > 1
HasGhost(pts) == Len(pts) > 1

\* the ghost point line, when there is one
GhostLines(uc, pts) ==
  IF HasGhost(pts)
  THEN LET g == GhostPoint(uc, pts[Len(pts) - 1], pts[Len(pts)])
       IN  NumToStr(FromAtoB(uc, g.x)) \o CommaSpace
             \o NumToStr(FromAtoB(uc, g.y)) \o CommaSpace \o <<"0">> \o NewLine
  ELSE <<>>

\* output(control, postfix)
Output(uc, c, postfix) ==
  NumToStr(FromAtoB(uc, c.x)) \o CommaSpace \o NumToStr(FromAtoB(uc, c.y)) \o postfix

\* a control of the editor as the exact quotient output() converts
AsQ(c) == Vector(Q(c.x, 1), Q(c.y, 1))

\* the body of the for loop over the splines
SplineLine(uc, spline) ==
  IF Len(spline.controls) = 4
  THEN Output(uc, AsQ(spline.controls[1]), CommaSpace)
         \o Output(uc, AsQ(spline.controls[2]), CommaSpace)
         \o Output(uc, AsQ(spline.controls[3]), CommaSpace)
         \o Output(uc, AsQ(spline.controls[4]), NewLine)
  ELSE IF Len(spline.controls) = 2
  THEN LET center == Center(spline.controls[1], spline.controls[2])
       IN  Output(uc, AsQ(spline.controls[1]), CommaSpace)
             \o Output(uc, center, CommaSpace)
             \o Output(uc, center, CommaSpace)
             \o Output(uc, AsQ(spline.controls[2]), NewLine)
  ELSE <<>>

RECURSIVE SplineLines(_, _)
SplineLines(uc, splines) ==
  IF splines = <<>> THEN <<>>
  ELSE SplineLine(uc, Head(splines)) \o SplineLines(uc, Tail(splines))

\* endData and the three lines after it
HeaderLines(to) ==
  EndDataStr \o NewLine
    \o <<"2", "0", "0">> \o NewLine
    \o NumToStr(Fin(to)) \o NewLine
    \o <<"2", "0", "0">> \o NewLine

\* the text with a line break after the metadata
ExportTextNewline(u, path, to, pts, json) ==
  LET uc == UnitConverter(u, Inch)
  IN  PointLines(uc, pts) \o GhostLines(uc, pts) \o HeaderLines(to)
        \o SplineLines(uc, path.splines) \o MetaPrefix \o json \o NewLine

\* rtn of exportPathFile
ExportText(u, path, to, pts, json) ==
  LET uc == UnitConverter(u, Inch)
  IN  PointLines(uc, pts) \o GhostLines(uc, pts) \o HeaderLines(to)
        \o SplineLines(uc, path.splines) \o MetaPrefix \o json

\* ------------------------------------------------------------------------
\* What the collaborators hand in
\* ------------------------------------------------------------------------
\* JSON.stringify(app.exportPathFileData()): one line of text
JsonPayloads ==
  { <<"[", "\"", "0", ",", " ", "e", "n", "d", "D", "a", "t", "a", "\"", "]">> }

\* the points of path.calculatePoints / calculateKnots: no two in a row equal
SamplePoints ==
  { [x |-> 10 * Scale, y |-> 0, speed |-> 100 * Scale],
    [x |-> 14 * Scale, y |-> 0, speed |-> 505006],
    [x |-> 10 * Scale, y |-> 3 * Scale, speed |-> 20 * Scale] }

SeqsUpTo(S, n) == UNION {[1..m -> S] : m \in 0..n}

PointSeqs ==
  { s \in SeqsUpTo(SamplePoints, MaxPoints) :
      \A p \in 1..(Len(s) - 1) : s[p].x # s[p + 1].x \/ s[p].y # s[p + 1].y }

\* the end points the editor shares between adjacent splines
EndPoints == { Vector(0, 0), Vector(10 * Scale, 0) }

\* the splines from a to b: a straight one and a cubic one
SplinesBetween(a, b) ==
  { [controls |-> <<a, b>>],
    [controls |-> <<a, Vector(3 * Scale, 4 * Scale), Vector(7 * Scale, -45000), b>>] }

\* a path is continuous by construction: adjacent splines share an end point
SplineSeqs ==
  { s \in SeqsUpTo(UNION {SplinesBetween(e[1], e[2]) :
                              e \in {f \in EndPoints \X EndPoints : f[1] # f[2]}},
                   MaxSplines) :
      \A p \in 1..(Len(s) - 1) : SplineLast(s[p]) = SplineFirst(s[p + 1]) }

UnitsOfLength == {Inch, Centimeter}

SpeedLimits == {625000}

\* ------------------------------------------------------------------------
\* The files a user opens
\* ------------------------------------------------------------------------
RECURSIVE Join(_, _)
\* parts.join(sep)
Join(parts, sep) ==
  IF parts = <<>> THEN <<>>
  ELSE IF Len(parts) = 1 THEN parts[1]
  ELSE parts[1] \o sep \o Join(Tail(parts), sep)

D(c) == <<c>>

\* (0,0) .. (3,3)
LineA == Join(<<D("0"), D("0"), D("1"), D("1"), D("2"), D("2"), D("3"), D("3")>>, CommaSpace)
\* (3.0004,2.9996) .. (6,0): starts where LineA ends, once rounded
LineB ==
  Join(<<<<"3", ".", "0", "0", "0", "4">>, <<"2", ".", "9", "9", "9", "6">>, D("4"),
         <<"-", "1">>, D("5"), D("1"), D("6"), D("0")>>, CommaSpace)
\* (3,0) .. (6,0): after LineA, x agrees and y does not
LineD == Join(<<D("3"), D("0"), D("4"), D("0"), D("5"), D("0"), D("6"), D("0")>>, CommaSpace)
\* seven tokens
Line7 == Join(<<D("3"), D("3"), D("4"), D("4"), D("5"), D("5"), D("6")>>, CommaSpace)
\* nine tokens
Line9 ==
  Join(<<D("3"), D("3"), D("4"), D("4"), D("5"), D("5"), D("6"), D("0"), D("1")>>,
       CommaSpace)
\* eight tokens, one of them no number
LineX == Join(<<D("3"), D("3"), D("x"), D("4"), D("5"), D("5"), D("6"), D("0")>>, CommaSpace)

SplineLinePalette == {LineA, LineB, LineD, Line7, Line9, LineX}

\* a sampled point line, as exportPathFile writes before endData
SampleLine == Join(<<D("1"), D("2"), <<"5", "0">>>>, CommaSpace)

Str200 == <<"2", "0", "0">>

MaxSpeedLines ==
  { <<"1", "0", "0">>, <<"1", "3", "0">>, <<"-", "5">>, <<"1", "2", "7">>,
    <<"6", "2", ".", "5", "0", "0", "6">>, <<"1", "2", "7", ".", "0", "0", "0", "4">>,
    InfinityStr, <<"-">> \o InfinityStr, <<"a", "b", "c">>,
    <<"1", "0", "0", "m">>, <<>>, <<" ", "1", "2", " ">> }

FinalLines == { <<>>, MetaPrefix \o <<"{", "}">>, LineB }

\* the lines of a file with an endData line and the three lines after it
FileLines(pre, speed, body, final) ==
  pre \o <<EndDataStr, Str200, speed, Str200>> \o body \o <<final>>

InputLines ==
  \* spline lines of every shape, before a final line of every shape
  { FileLines(<<>>, <<"1", "0", "0">>, body, final) :
      body \in SeqsUpTo(SplineLinePalette, MaxBody), final \in FinalLines }
  \cup
  \* the same after a point line and endData
  { FileLines(<<SampleLine>>, <<"1", "0", "0">>, body, <<>>) :
      body \in SeqsUpTo(SplineLinePalette, MaxBody) }
  \cup
  \* max speed lines of every shape
  { FileLines(<<>>, speed, body, <<>>) :
      speed \in MaxSpeedLines, body \in {<<>>, <<LineA>>, <<LineA, LineB>>} }
  \cup
  \* files that end before the header does
  { <<EndDataStr>>, <<EndDataStr, Str200>>, <<EndDataStr, Str200, <<"1", "0", "0">>>>,
    <<EndDataStr, Str200, <<"1", "0", "0">>, Str200, LineA, <<>>, LineB, <<>>>>,
    <<SampleLine, EndDataStr, Str200, <<"1", "3", "0">>>>,
    <<EndDataStr, <<>>>>, <<EndDataStr, Str200, <<>>>> }
  \cup
  \* files with no endData line
  { ls \in SeqsUpTo({LineA, Str200, EndDataStr \o <<" ">>,
                     <<"E", "n", "d", "D", "a", "t", "a">>, <<>>}, 2) : ls # <<>> }

InputFiles == { Join(ls, NewLine) : ls \in InputLines }

\* ------------------------------------------------------------------------
\* The editor
\* ------------------------------------------------------------------------
Init ==
  /\ version \in {1, 2}
  /\ pc = "idle"
  /\ uol = Inch
  /\ appPaths = <<>>
  /\ speedTo = SpeedDefaultTo * Scale
  /\ points = <<>>
  /\ fileContent = <<>>
  /\ exported = FALSE
  /\ lines = <<>>
  /\ i = 0
  /\ maxSpeed = NaN
  /\ paths = <<>>
  /\ sc = Fin(SpeedDefaultTo * Scale)
  /\ err = <<>>
  /\ thrower = "none"
  /\ rtn = <<>>

\* the user draws a path and sets the unit and the speed limit
Edit ==
  /\ pc = "idle"
  /\ pc' = "edited"
  /\ uol' \in UnitsOfLength
  /\ \E s \in SplineSeqs : appPaths' = <<[splines |-> s]>>
  /\ speedTo' \in SpeedLimits
  /\ UNCHANGED <<version, points, fileContent, exported, decodeVars, err, thrower>>

\* the user opens a file in the editor just started
OpenFile ==
  /\ pc = "idle"
  /\ pc' = "file"
  /\ fileContent' \in InputFiles
  /\ exported' = FALSE
  /\ UNCHANGED <<version, appVars, points, decodeVars, err, thrower>>

ExportPathFile ==
  /\ pc \in {"idle", "edited"}
  /\ IF appPaths = <<>>
     THEN /\ pc' = "exportError"
          /\ err' = NoPathError
          /\ thrower' = "export"
          /\ UNCHANGED <<points, fileContent, exported>>
     ELSE IF appPaths[1].splines = <<>>
     THEN /\ pc' = "exportError"
          /\ err' = NoSplineError
          /\ thrower' = "export"
          /\ UNCHANGED <<points, fileContent, exported>>
     ELSE /\ pc' = "file"
          /\ points' \in PointSeqs
          /\ \E json \in JsonPayloads :
               fileContent' = ExportText(uol, appPaths[1], speedTo, points', json)
          /\ exported' = TRUE
          /\ UNCHANGED <<err, thrower>>
  /\ UNCHANGED <<version, appVars, decodeVars>>

Next ==
  \/ Edit
  \/ OpenFile
  \/ ExportPathFile
  \/ RecoverStart
  \/ RecoverLine
  \/ RecoverReturn

Spec == Init /\ [][Next]_vars

\* ------------------------------------------------------------------------
\* Properties
\* ------------------------------------------------------------------------
\* recoverPathFileData has split the text
Started == pc \in {"loop", "done", "error"}

\* recoverPathFileData got past the max speed test
Accepted == pc \in {"loop", "done"} \/ (pc = "error" /\ thrower \in {"tokens", "num", "push"})

SplineMessage == "Invalid file format, unable to parse spline at line "

\* the places in the text of an endData that fills a line
SentinelStarts(text) ==
  { p \in 1..Len(text) :
      /\ text[p] = "e"
      /\ HasAt(text, EndDataStr, p)
      /\ (p = 1 \/ text[p - 1] = "\n")
      /\ (p + 7 > Len(text) \/ text[p + 7] = "\n") }

\* the 1-based position of the first line of ls that is endData, 0 if none
SentinelPos(ls) ==
  LET at == {p \in 1..Len(ls) : ls[p] = EndDataStr}
  IN  IF at = {} THEN 0 ELSE CHOOSE p \in at : \A q \in at : p <= q

\* the 1-based position of the line four lines after the endData line
FirstSplinePos(ls) == SentinelPos(ls) + 4

\* the 1-based positions of the spline lines among ls: from index i + 4 to
\* the second-to-last line
SplinePositions(ls) ==
  IF SentinelPos(ls) = 0 THEN {} ELSE FirstSplinePos(ls)..(Len(ls) - 1)

\* the numbers of a line, each rounded to three places; <<>> unless the line
\* is eight numbers
Rounded(line) ==
  LET tokens == Split(line, CommaSpace)
  IN  IF Len(tokens) = 8 /\ \A t \in 1..8 : ~IsNaN(ToNumber(tokens[t]))
      THEN [t \in 1..8 |-> ToNumber(ToFixed3(ToNumber(tokens[t])))]
      ELSE <<>>

\* r holds the rounded numbers of each line: line n is eight numbers and
\* starts where line n - 1 ends, or is the first spline line (at position
\* first)
WellFormed(r, first, n) ==
  /\ r[n] # <<>>
  /\ n > first /\ r[n - 1] # <<>> => r[n][1] = r[n - 1][7] /\ r[n][2] = r[n - 1][8]

\* all the splines recoverPathFileData returned, in order
RECURSIVE AllSplines(_)
AllSplines(ps) == IF ps = <<>> THEN <<>> ELSE Head(ps).splines \o AllSplines(Tail(ps))

\* C1: decoding the text exportPathFile produced for a path of N >= 1
\* splines never fails and returns one path of exactly N splines; the
\* metadata line, the last one, is never the line being parsed.
C1_RoundTrip ==
  exported /\ Started =>
    /\ pc # "error"
    /\ i <= Len(lines) - 1
    /\ HasAt(lines[Len(lines)], MetaPrefix, 1)
    /\ pc = "done" =>
         /\ Len(rtn[1].paths) = 1
         /\ Len(rtn[1].paths[1].splines) = Len(appPaths[1].splines)

C1_Witness ==
  /\ exported /\ pc = "done"
  /\ uol = Centimeter
  /\ Len(appPaths[1].splines) = MaxSplines
  /\ Len(rtn[1].paths[1].splines) = MaxSplines

\* C2: in every path a successful decode returns, each spline starts at the
\* coordinates (rounded to three places) the spline before it ends at; a
\* spline line that starts elsewhere than the line before it ended (all
\* spline lines up to it being eight numbers) makes decode throw at that
\* line: the spline is not appended, the mismatch is not corrected and
\* nothing is returned.
C2_Continuity ==
  /\ pc = "done" =>
       \A p \in 1..Len(rtn[1].paths) :
         \A n \in 1..(Len(rtn[1].paths[p].splines) - 1) :
           LET a == rtn[1].paths[p].splines[n].controls[4]
               b == rtn[1].paths[p].splines[n + 1].controls[1]
           IN  a.x = b.x /\ a.y = b.y
  /\ pc \in {"done", "error"} /\ Accepted =>
       LET at == SplinePositions(lines)
           first == FirstSplinePos(lines)
           r == [n \in 1..Len(lines) |-> IF n \in at THEN Rounded(lines[n]) ELSE <<>>]
       IN  \A n \in at :
             /\ \A m \in at : m < n => WellFormed(r, first, m)
             /\ r[n] # <<>>
             /\ ~WellFormed(r, first, n)
             => /\ pc = "error"
                /\ i + 1 = n
                /\ rtn = <<>>
                /\ Len(AllSplines(paths)) = n - first
                /\ <<SplineLast(AllSplines(paths)[n - first]).x,
                     SplineLast(AllSplines(paths)[n - first]).y>> = <<r[n - 1][7], r[n - 1][8]>>

C2_Witness ==
  /\ pc = "done"
  /\ Len(rtn[1].paths) = 1
  /\ Len(rtn[1].paths[1].splines) = 2
  /\ ToNumber(Split(lines[i], CommaSpace)[1]) = Fin(30004)
  /\ rtn[1].paths[1].splines[2].controls[1].x = Fin(3 * Scale)

C4_ErrorLine ==
  pc \in {"done", "error"} /\ Accepted =>
    LET at == SplinePositions(lines)
        first == FirstSplinePos(lines)
        r == [n \in 1..Len(lines) |-> IF n \in at THEN Rounded(lines[n]) ELSE <<>>]
    IN  \A n \in at :
          /\ Len(Split(lines[n], CommaSpace)) # 8
          /\ \A m \in at : m < n => WellFormed(r, first, m)
          => /\ pc = "error"
             /\ err = <<SplineMessage, n>>
             /\ rtn = <<>>

C4_Witness ==
  /\ pc = "error" /\ thrower = "tokens"
  /\ lines[1] = SampleLine
  /\ err = <<SplineMessage, 7>>
  /\ lines[7] = Line9

\* C5 as stated: the max speed line is accepted only when it is a finite
\* number, and rejected whenever it is not.
C5_FiniteOnly ==
  /\ Accepted => maxSpeed.k = "fin"
  /\ pc = "error" /\ thrower = "maxSpeed" => maxSpeed.k # "fin"

\* C5 as amended: decode throws the max speed error exactly when line i + 2
\* is missing or is no number (Number() of it is NaN); any other line is
\* accepted, "Infinity" and "-Infinity" and the empty line (read as 0)
\* among them.
C5_RejectsNaN ==
  Started /\ SentinelPos(lines) # 0 =>
    LET at == SentinelPos(lines) + 2
        missing == at > Len(lines)
    IN  /\ pc = "error" /\ thrower = "maxSpeed" =>
             /\ err = MaxSpeedError /\ rtn = <<>>
             /\ missing \/ SignedLiteral(Trim(lines[at])) = NaN
             /\ ~missing => Trim(lines[at]) # <<>>
        /\ Accepted =>
             /\ ~missing
             /\ \/ Trim(lines[at]) = <<>> /\ maxSpeed = Fin(0)
                \/ SignedLiteral(Trim(lines[at])) # NaN
                     /\ maxSpeed = SignedLiteral(Trim(lines[at]))
        /\ Accepted \/ (pc = "error" /\ thrower = "maxSpeed")

C5_Witness ==
  /\ Accepted /\ pc = "done"
  /\ maxSpeed = PosInf
  /\ lines[3] = InfinityStr

\* the max speed ms rounded to three places and clamped into [0, 127], in
\* units of 1 / Scale
ClampedSpeed(ms) ==
  IF ms.k = "inf" THEN (IF ms.v > 0 THEN 127 * Scale ELSE 0)
  ELSE LET r == 10 * ((Abs(ms.v) + 5) \div 10)
           v == IF ms.v < 0 THEN -r ELSE r
       IN  IF v < 0 THEN 0 ELSE IF v > 127 * Scale THEN 127 * Scale ELSE v

\* the speed limits a decode returned: rev. 1 one per path, rev. 2 that of sc
ReturnedSpeeds ==
  IF version = 1 THEN {rtn[1].paths[p].to : p \in 1..Len(rtn[1].paths)}
  ELSE {rtn[1].sc}

\* C6: after a successful decode the recovered speedLimit.to is the max
\* speed line rounded to three places and clamped into [0, 127]: 130 gives
\* 127, a negative value 0, a value in the range itself.
C6_SpeedClamped ==
  pc = "done" =>
    \A to \in ReturnedSpeeds :
      /\ to = Fin(ClampedSpeed(maxSpeed))
      /\ to.k = "fin" /\ 0 <= to.v /\ to.v <= 127 * Scale
      /\ maxSpeed = Fin(130 * Scale) => to = Fin(127 * Scale)
      /\ maxSpeed.v < 0 => to = Fin(0)
      /\ maxSpeed = Fin(100 * Scale) => to = Fin(100 * Scale)

C6_Witness ==
  /\ pc = "done"
  /\ lines[3] = <<"1", "3", "0">>
  /\ ReturnedSpeeds = {Fin(127 * Scale)}

\* the lines of the exported text before its endData line
LinesBeforeEndData ==
  LET ls == Split(fileContent, NewLine)
  IN  SubSeq(ls, 1, SentinelPos(ls) - 1)

\* the text of a coordinate n / d of the editor, written in inches
InInches(n, d) ==
  NumToStr(ToNumber(RatToFixed3(n * (IF uol = Inch THEN 1 ELSE 50),
                                d * (IF uol = Inch THEN 1 ELSE 127))))

\* 20 inches in the unit of the path, in units of 1 / Scale
Overrun == IF uol = Inch THEN 20 * Scale ELSE 508000

\* C7: with more than one sampled point the text holds exactly one ghost
\* line, after the sampled point lines and right before endData, of speed 0
\* and at the point 20 inches past the last sampled point on the ray from
\* the second-to-last one (which is last2.interpolate(last1, distance + 20
\* inches)); samples (10,0), (14,0) in inches give "34, 0, 0"; with 0 or 1
\* sampled points there is no ghost line.
C7_GhostLine ==
  exported /\ pc = "file" =>
    LET before == LinesBeforeEndData
        n == Len(points)
    IN  /\ \A p \in 1..n : p <= Len(before) /\ before[p] # <<>>
                             /\ Len(Split(before[p], CommaSpace)) = 3
        /\ n <= 1 => Len(before) = n
        /\ n > 1 =>
             LET last2 == points[n - 1]
                 last1 == points[n]
                 len == Distance(last2, last1)
                 g == GCD(Overrun, len)
                 ghost == Split(before[Len(before)], CommaSpace)
             IN  /\ Len(before) = n + 1
                 /\ ghost = << InInches(last1.x * (len \div g)
                                          + (last1.x - last2.x) * (Overrun \div g),
                                        len \div g),
                               InInches(last1.y * (len \div g)
                                          + (last1.y - last2.y) * (Overrun \div g),
                                        len \div g),
                               <<"0">> >>
                 /\ uol = Inch /\ last2.x = 10 * Scale /\ last2.y = 0
                      /\ last1.x = 14 * Scale /\ last1.y = 0
                    => before[Len(before)] = <<"3", "4", ",", " ", "0", ",", " ", "0">>

C7_Witness ==
  /\ exported
  /\ uol = Inch
  /\ Len(points) = 2
  /\ points[1].x = 10 * Scale /\ points[1].y = 0
  /\ points[2].x = 14 * Scale /\ points[2].y = 0
  /\ LinesBeforeEndData[3] = <<"3", "4", ",", " ", "0", ",", " ", "0">>

\* the spline lines of the exported text: after endData and the three lines
\* that follow it, up to the metadata line
ExportedSplineLines ==
  LET ls == Split(fileContent, NewLine)
  IN  SubSeq(ls, FirstSplinePos(ls), Len(ls) - 1)

\* C8: the exported text holds one line per spline, in order, of four "x, y"
\* pairs: the four controls of a 4-control spline, and p0, midpoint,
\* midpoint, p1 of a 2-control spline ((0,0), (10,0) in inches give
\* "0, 0, 5, 0, 5, 0, 10, 0").
C8_SplineLines ==
  exported /\ pc = "file" =>
    LET out == ExportedSplineLines
        splines == appPaths[1].splines
    IN  /\ Len(out) = Len(splines)
        /\ \A n \in 1..Len(splines) :
             LET c == splines[n].controls
                 tokens == Split(out[n], CommaSpace)
             IN  /\ Len(c) = 4 =>
                      tokens = << InInches(c[1].x, 1), InInches(c[1].y, 1),
                                  InInches(c[2].x, 1), InInches(c[2].y, 1),
                                  InInches(c[3].x, 1), InInches(c[3].y, 1),
                                  InInches(c[4].x, 1), InInches(c[4].y, 1) >>
                 /\ Len(c) = 2 =>
                      tokens = << InInches(c[1].x, 1), InInches(c[1].y, 1),
                                  InInches(c[1].x + c[2].x, 2), InInches(c[1].y + c[2].y, 2),
                                  InInches(c[1].x + c[2].x, 2), InInches(c[1].y + c[2].y, 2),
                                  InInches(c[2].x, 1), InInches(c[2].y, 1) >>
                 /\ uol = Inch /\ c = <<Vector(0, 0), Vector(10 * Scale, 0)>> =>
                      tokens = <<D("0"), D("0"), D("5"), D("0"), D("5"), D("0"),
                                 <<"1", "0">>, D("0")>>

C8_Witness ==
  /\ exported
  /\ uol = Inch
  /\ Len(appPaths[1].splines) = 2
  /\ appPaths[1].splines[1].controls = <<Vector(0, 0), Vector(10 * Scale, 0)>>
  /\ Len(appPaths[1].splines[2].controls) = 4
  /\ Len(ExportedSplineLines) = 2

\* C9: decode of a text with no line equal to endData throws the missing
\* endData error and returns nothing, no path at all, whatever the lines are.
C9_MissingSentinel ==
  Started /\ SentinelStarts(fileContent) = {} =>
    /\ pc = "error"
    /\ err = NoEndDataError
    /\ rtn = <<>>
    /\ paths = <<>>

C9_Witness ==
  /\ pc = "error"
  /\ err = NoEndDataError
  /\ rtn = <<>>
  /\ \E n \in 1..Len(lines) : lines[n] = LineA
  /\ \E n \in 1..Len(lines) : lines[n] = EndDataStr \o <<" ">>

\* C10: the final line of the text is never parsed: a successful decode
\* returns one spline per line from index i + 4 to the second-to-last line,
\* in file order, whatever the final line holds, and no spline error ever
\* names the final line; a text whose lines from index i + 4 to the
\* second-to-last are well formed is accepted, empty final line or not.
C10_FinalLineSkipped ==
  /\ pc = "done" =>
       LET at == SplinePositions(lines)
           got == AllSplines(rtn[1].paths)
       IN  /\ Len(got) = Cardinality(at)
           /\ \A n \in at :
                LET s == got[n - FirstSplinePos(lines) + 1].controls
                    r == Rounded(lines[n])
                IN  /\ r # <<>>
                    /\ <<s[1].x, s[1].y, s[2].x, s[2].y, s[3].x, s[3].y, s[4].x, s[4].y>> = r
  /\ pc = "error" /\ thrower \in {"push", "tokens", "num"} => err[2] < Len(lines)
  /\ pc \in {"done", "error"} /\ Accepted =>
       LET at == SplinePositions(lines)
           first == FirstSplinePos(lines)
           r == [n \in 1..Len(lines) |-> IF n \in at THEN Rounded(lines[n]) ELSE <<>>]
       IN  (\A n \in at : WellFormed(r, first, n)) => pc = "done"

C10_Witness ==
  /\ pc = "done"
  /\ ~exported
  /\ lines[Len(lines)] = LineB
  /\ lines[Len(lines) - 1] = LineA
  /\ Len(AllSplines(rtn[1].paths)) = 1
====
